---- MODULE Spec2Model ----
(***************************************************************************)
(* dropbox_sqlite_ext/__init__.py: DropboxSqliteExtension.dll_filename and  *)
(* _win32_extract, run by the threads of processes that share one temporary *)
(* directory.                                                               *)
(*                                                                          *)
(* Process 1 has NumThreads threads (ids 1..NumThreads); process 2 is a     *)
(* peer process with one thread (id NumThreads + 1).                        *)
(*                                                                          *)
(* Spec runs the threads of process 1.  The other processes of the machine  *)
(* are its environment: the temporary directory starts with any files       *)
(* earlier extractions can have left, and "foreign" are the lock files that *)
(* live processes outside the model hold open.                              *)
(* SpecPeers runs thread 1 of process 1 and the peer process step by step   *)
(* from an empty directory.                                                 *)
(*                                                                          *)
(* The operating system is Windows where the extraction runs: a file that   *)
(* some process holds open without FILE_SHARE_DELETE cannot be deleted      *)
(* (ERROR_SHARING_VIOLATION), and a file opened with share mode 0 cannot be *)
(* opened or deleted by anyone else.                                        *)
(***************************************************************************)
EXTENDS Integers, FiniteSets, Sequences, TLC

\* Threads of process 1 that call dll_filename concurrently.
NumThreads == 2
\* Distinct random tokens tempfile can draw for the name of the lock file.
NumTokens == 2

Procs == {1, 2}
Threads == 1..(NumThreads + 1)
procOf(t) == IF t <= NumThreads THEN 1 ELSE 2
threadsOf(p) == {t \in Threads : procOf(t) = p}
Tokens == 1..NumTokens

Platforms == {"win32", "darwin", "linux2"}

\* Longest package name and dll name, in characters.
MaxLen == 2

\* ---------------------------------------------------------------- names
\* A basename in the temporary directory is <<stem, suffix>>: the stem is
\* tmp_prefix followed by the random token, here the token itself.
lck_suffix == ".lck"

dll_suffix(plat) ==
    IF plat = "win32" THEN ".dll"
    ELSE IF plat = "darwin" THEN ".dylib"
    ELSE ".so"

NoName == <<0, "">>
LckName(k) == <<k, lck_suffix>>
DllName(k) == <<k, dll_suffix("win32")>>
Names == {LckName(k) : k \in Tokens} \cup {DllName(k) : k \in Tokens}

\* Names the regexes reject: another payload's dll and lock file (the stem 0
\* does not start with tmp_prefix) and a file of this prefix with another suffix.
Unrelated == {<<0, dll_suffix("win32")>>, <<0, lck_suffix>>, <<1, ".txt">>}

\* dll_regex / lck_regex: "^(<tmp_prefix>.*)<suffix>$"
dll_regex(b) == b[1] \in Tokens /\ b[2] = dll_suffix("win32")
lck_regex(b) == b[1] \in Tokens /\ b[2] = lck_suffix

dll_to_lck(b) == IF dll_regex(b) THEN <<b[1], lck_suffix>> ELSE NoName
lck_to_dll(b) == IF lck_regex(b) THEN <<b[1], dll_suffix("win32")>> ELSE NoName

\* ---------------------------------------------------------------- values
\* A path is a directory and a basename; stem 0 is the packaged resource
\* dll_basename, which carries no token.
NoPath == [dir |-> "", base |-> NoName]
TempPath(b) == [dir |-> "tmp", base |-> b]
dll_basename(plat) == <<0, dll_suffix(plat)>>
ResourcePath(plat) == [dir |-> "pkg", base |-> dll_basename(plat)]
dirname(path) == path.dir

\* What the last call of dll_filename gave its caller: nothing yet, a path, or
\* an exception.
NoRet == [kind |-> "none", path |-> NoPath]
Returned(path) == [kind |-> "path", path |-> path]
Failed == [kind |-> "error", path |-> NoPath]

\* An exception: its class, its winerror code or message, and for
\* BrokenTempDirError the directory it carries.
Raised(exc, code) == [exc |-> exc, code |-> code, dir |-> ""]
BrokenTempDirError(d) == [exc |-> "BrokenTempDirError", code |-> "", dir |-> d]

\* for retry in range(10)
RetryLimit == 10

VARIABLES
    platform,            \* sys.platform, one machine
    ident,               \* two (package_name, dll_name) pairs and what line 142-145 derive
                         \* from them, or NoIdent
    enforced,            \* the file system of the temporary directory refuses the delete
                         \* of a file that is held open, as Windows does
    bundled,             \* per process: resource_filename raises NotImplementedError
    lock,                \* per process: self._lock, 0 or the thread that holds it
    extracted_filename,  \* per process: self._extracted_filename
    extracted_lockfile,  \* per process: self._extracted_lockfile, name of the open lock file
    tmp,                 \* the temporary directory: the names in it
    foreign,             \* lock files held open by live processes outside the model
    pc,                  \* per thread: where it is in dll_filename / _win32_extract
    cands,               \* per thread: os.listdir entries matching dll_regex, not yet visited
    cur,                 \* per thread: basename of the candidate whose dll is deleted next
    curres,              \* per thread: what the last os.unlink of a lock file gave: that
                         \* of cur in the scan, that of lockfile in the sanity check
    lockfile,            \* per thread: lockfilename of the open local lockfile, or NoName
    dllfilename,         \* per thread: dllfilename, or NoName
    dllfile,             \* per thread: the local dllfile is open for writing
    copied,              \* per thread: copyfileobj wrote the whole payload to dllfile
    ret,                 \* per thread: outcome of its last call of dll_filename
    raised,              \* the exception the last step raised to a caller of dll_filename
    sink,                \* what the last step reported: report_bad_assumption, unhandled_exc_handler
    nExtract,            \* per process: calls of _win32_extract so far (0, 1, 2 = more)
    made,                \* per thread: names its running extraction created
    tries,               \* per thread: iterations of the creation loop its extraction began
    skipped,             \* per thread: candidates of this scan whose lock file was in use
    probeSaw,            \* per thread: state of the dll file when LoadLibrary ran
    garbage              \* per thread: names still held open by the frame of its last
                         \* failed _win32_extract, which the traceback keeps alive

procVars == <<platform, ident, enforced, bundled, lock, extracted_filename, extracted_lockfile, nExtract,
              foreign, garbage>>
localVars == <<cands, cur, curres, lockfile, dllfilename, dllfile, copied>>
histVars == <<made, tries, skipped, probeSaw>>
vars == <<platform, ident, enforced, bundled, lock, extracted_filename, extracted_lockfile, tmp, foreign, pc,
          cands, cur, curres, lockfile, dllfilename, dllfile, copied, ret, raised, sink,
          nExtract, made, tries, skipped, probeSaw, garbage>>

NotProbed == [loaded |-> FALSE, written |-> FALSE, open |-> FALSE]

\* No exception left dll_filename in the last step.  Otherwise: the thread, the
\* exception, the answers of LoadLibrary and can_read_and_execute when the probe
\* raised it, and the names and loop iterations of the extraction it ended.
NotRaised ==
    [thread |-> 0, exc |-> "", code |-> "", dir |-> "", load |-> "", check |-> "",
     made |-> {}, tries |-> 0]
NoReport == <<0, "none">>

\* ---------------------------------------------------------------- the prefix
\* Names are strings of characters; "." is the character the code joins with.
Chars == {"a", "."}
Strings == UNION {[1..n -> Chars] : n \in 1..MaxLen}

\* uuid.UUID('125626a0-9d3a-4aeb-b2ed-5770cb0665cc')
ns_uuid == "125626a0-9d3a-4aeb-b2ed-5770cb0665cc"

\* "%s.%s" % (self.package_name, self.dll_name): the name that is hashed.
uuid_name(package_name, dll_name) == package_name \o <<".">> \o dll_name

\* uuid.uuid5(namespace, name): the SHA-1 of namespace and name, taken to have
\* no collisions: two results are equal exactly when namespace and name are.
uuid5(namespace, name) == [namespace |-> namespace, name |-> name]

\* dll_uuid = uuid.uuid5(ns_uuid, "%s.%s" % (self.package_name, self.dll_name))
dll_uuid(package_name, dll_name) == uuid5(ns_uuid, uuid_name(package_name, dll_name))

\* A prefix made of the uuid alone.
tmp_prefixUuidOnly(dll_name, uuid) == [dll_name |-> <<>>, uuid |-> uuid, tail |-> ".tmp"]

\* tmp_prefix = "%s.{%s}.tmp" % (self.dll_name, dll_uuid)
tmp_prefix(dll_name, uuid) == [dll_name |-> dll_name, uuid |-> uuid, tail |-> ".tmp"]

NoIdent == [derived |-> FALSE, a |-> <<>>, b |-> <<>>, uuid_a |-> <<>>, uuid_b |-> <<>>,
            prefix_a |-> <<>>, prefix_b |-> <<>>]

Fresh ==
    /\ lock = [p \in Procs |-> 0]
    /\ extracted_filename = [p \in Procs |-> NoPath]
    /\ extracted_lockfile = [p \in Procs |-> NoName]
    /\ pc = [t \in Threads |-> "idle"]
    /\ cands = [t \in Threads |-> {}]
    /\ cur = [t \in Threads |-> NoName]
    /\ curres = [t \in Threads |-> ""]
    /\ lockfile = [t \in Threads |-> NoName]
    /\ dllfilename = [t \in Threads |-> NoName]
    /\ dllfile = [t \in Threads |-> FALSE]
    /\ copied = [t \in Threads |-> FALSE]
    /\ ret = [t \in Threads |-> NoRet]
    /\ raised = NotRaised
    /\ sink = NoReport
    /\ nExtract = [p \in Procs |-> 0]
    /\ made = [t \in Threads |-> {}]
    /\ tries = [t \in Threads |-> 0]
    /\ skipped = [t \in Threads |-> {}]
    /\ probeSaw = [t \in Threads |-> NotProbed]
    /\ garbage = [t \in Threads |-> {}]

\* One process, on any platform, bundled or not; the directory holds what
\* earlier runs left, some of the lock files still held by their processes.
Init ==
    /\ ident = NoIdent
    /\ platform \in Platforms
    /\ enforced = TRUE
    /\ bundled \in {b \in [Procs -> BOOLEAN] : b[2]}
    /\ tmp \in SUBSET Names
    /\ foreign \in SUBSET {n \in tmp : lck_regex(n)}
    /\ Fresh

\* Two bundled processes on Windows and an empty directory.
InitPeers ==
    /\ ident = NoIdent
    /\ platform = "win32"
    /\ enforced = TRUE
    /\ bundled = [p \in Procs |-> TRUE]
    /\ tmp = {}
    /\ foreign = {}
    /\ Fresh

\* ---------------------------------------------------------------- the OS
\* Some thread's local lockfile, or some process's _extracted_lockfile, is an
\* open handle on the lock file n.
LockHeld(n) ==
    \/ n \in foreign
    \/ \E t \in Threads : lockfile[t] = n
    \/ \E p \in Procs : extracted_lockfile[p] = n
    \/ \E t \in Threads : lck_regex(n) /\ n \in garbage[t]

\* Some thread has the dll file n open for writing (CreateFileW share mode 0).
DllOpen(n) ==
    \/ \E t \in Threads : dllfile[t] /\ dllfilename[t] = n
    \/ \E t \in Threads : dll_regex(n) /\ n \in garbage[t]

\* os.unlink(n): the results Windows can give.  "ok" removes the file; a file
\* that is held open is removed only where the file system does not enforce
\* the share mode of the handle.
UnlinkResults(n) ==
    IF n \notin tmp THEN {"ERROR_FILE_NOT_FOUND"}
    ELSE IF LockHeld(n) \/ DllOpen(n)
    THEN {"ERROR_SHARING_VIOLATION", "ERROR_ACCESS_DENIED"}
             \cup (IF enforced THEN {} ELSE {"ok"})
    ELSE {"ok", "ERROR_ACCESS_DENIED"}

\* A create that opens the file when the name exists (CREATE_ALWAYS, no O_EXCL).
CreateAlwaysOk(n) == TRUE

\* CreateFileW(..., CREATE_NEW, ...) and tempfile's os.open(..., O_EXCL): the
\* create succeeds only on a name that does not exist.
ExclusiveCreateOk(n) == n \notin tmp

\* win32api.LoadLibrary(n) of a file whose payload is written or not: the
\* results the loader can give.
LoadResults(n, written) ==
    IF n \notin tmp THEN {"ERROR_MOD_NOT_FOUND"}
    ELSE IF DllOpen(n) THEN {"ERROR_SHARING_VIOLATION"}
    ELSE IF written THEN {"ok", "ERROR_ACCESS_DENIED", "ERROR_BAD_EXE_FORMAT"}
    ELSE {"ERROR_BAD_EXE_FORMAT", "ERROR_ACCESS_DENIED"}

\* can_read_and_execute(n): True, False (CreateFileW gave ERROR_ACCESS_DENIED),
\* or the winerror of any other wf.error, which it re-raises.
can_read_and_execute(n) ==
    IF n \notin tmp THEN {"ERROR_FILE_NOT_FOUND"}
    ELSE {"True", "False", "ERROR_SHARING_VIOLATION"}

\* ---------------------------------------------------------------- helpers
Goto(t, where) == pc' = [pc EXCEPT ![t] = where]
Report(t, what) == sink' = IF what = "none" THEN NoReport ELSE <<t, what>>
Quiet == raised' = NotRaised

\* The open handles in the locals of _win32_extract: lockfile, and dllfile
\* until dllfile.close().
Held(t) ==
    {n \in {lockfile[t]} : n # NoName} \cup {n \in {dllfilename[t]} : dllfile[t]}

\* _win32_extract is left.  On return its frame and locals go away; when an
\* exception leaves it the traceback keeps the frame, and the handles in
\* "held", until the traceback is released.
DropLocals(t, held) ==
    /\ garbage' = [garbage EXCEPT ![t] = held]
    /\ cands' = [cands EXCEPT ![t] = {}]
    /\ cur' = [cur EXCEPT ![t] = NoName]
    /\ curres' = [curres EXCEPT ![t] = ""]
    /\ lockfile' = [lockfile EXCEPT ![t] = NoName]
    /\ dllfilename' = [dllfilename EXCEPT ![t] = NoName]
    /\ dllfile' = [dllfile EXCEPT ![t] = FALSE]
    /\ copied' = [copied EXCEPT ![t] = FALSE]
    /\ made' = [made EXCEPT ![t] = {}]
    /\ tries' = [tries EXCEPT ![t] = 0]
    /\ skipped' = [skipped EXCEPT ![t] = {}]
    /\ probeSaw' = [probeSaw EXCEPT ![t] = NotProbed]

\* A with block that keeps the lock when it is left.
AfterWithKept(t) == t

\* The holder of self._lock once its holder t has left "with self._lock":
\* nobody, on a return and on an exception alike.
AfterWith(t) == 0

\* dll_filename ends inside "with self._lock": the value or exception reaches
\* the caller and the lock is released.
Leave(t, r) ==
    /\ ret' = [ret EXCEPT ![t] = r]
    /\ Goto(t, "idle")
    /\ lock' = [lock EXCEPT ![procOf(t)] = AfterWith(t)]

\* The exception e leaves dll_filename.  load and check are the answers of
\* LoadLibrary and can_read_and_execute when the probe raised it; mk and n are
\* the names the extraction made and the loop iterations it began.
Throw(t, e, load, check, mk, n) ==
    /\ Leave(t, Failed)
    /\ raised' = [thread |-> t, exc |-> e.exc, code |-> e.code, dir |-> e.dir,
                  load |-> load, check |-> check, made |-> mk, tries |-> n]
    /\ Report(t, "none")

\* An exception leaves _win32_extract, and then dll_filename.
Raise(t, e) ==
    /\ Throw(t, e, "", "", made[t], tries[t])
    /\ DropLocals(t, Held(t))

RaiseFromProbe(t, e, load, check) ==
    /\ Throw(t, e, load, check, made[t], tries[t])
    /\ DropLocals(t, Held(t))

\* ---------------------------------------------------------------- dll_filename
\* A dll_filename without "with self._lock".
CanAcquireUnlocked(p) == TRUE

\* with self._lock: blocks while another thread holds the lock.
CanAcquire(p) == lock[p] = 0

\* A dll_filename that never looks at the cached path.
IsCachedNever(p) == FALSE

\* A dll_filename that remembers that it has run an extraction, whatever
\* became of it.
IsCachedOnceTried(p) == nExtract[p] > 0

\* if self._extracted_filename is not None
IsCached(p) == extracted_filename[p] # NoPath

\* A dll_filename that takes every platform for Windows.
startswith_winAlways(plat) == TRUE

\* sys.platform.startswith("win")
startswith_win(plat) == plat = "win32"

\* A thread calls dll_filename: pkg_resources.resource_filename gives the path
\* of the resource, or raises NotImplementedError when the resource is bundled.
Call(t) ==
    /\ pc[t] = "idle"
    /\ IF bundled[procOf(t)]
         THEN /\ Goto(t, "acquire")
              /\ ret' = [ret EXCEPT ![t] = NoRet]
         ELSE /\ ret' = [ret EXCEPT ![t] = Returned(ResourcePath(platform))]
              /\ UNCHANGED pc
    /\ Quiet
    /\ Report(t, "none")
    /\ UNCHANGED <<procVars, tmp, localVars, histVars>>

Acquire(t) ==
    /\ pc[t] = "acquire"
    /\ CanAcquire(procOf(t))
    /\ lock' = [lock EXCEPT ![procOf(t)] = t]
    /\ Goto(t, "locked")
    /\ Quiet
    /\ Report(t, "none")
    /\ UNCHANGED <<platform, ident, enforced, bundled, extracted_filename, extracted_lockfile, nExtract,
                   foreign, garbage, tmp, localVars, ret, histVars>>

\* Lines 99-106, under the lock: the cached path, or the extraction on Windows,
\* or the NotImplementedError again.
Locked(t) ==
    LET p == procOf(t) IN
    /\ pc[t] = "locked"
    /\ IF IsCached(p)
         THEN /\ Leave(t, Returned(extracted_filename[p]))
              /\ Quiet
              /\ Report(t, "none")
              /\ UNCHANGED nExtract
         ELSE IF startswith_win(platform)
         THEN /\ Goto(t, "listdir")
              /\ nExtract' = [nExtract EXCEPT ![p] = IF @ < 2 THEN @ + 1 ELSE @]
              /\ Quiet
              /\ Report(t, "none")
              /\ UNCHANGED <<lock, ret>>
         ELSE /\ Throw(t, Raised("NotImplementedError", ""), "", "", {}, 0)
              /\ UNCHANGED nExtract
    /\ UNCHANGED <<platform, ident, enforced, bundled, extracted_filename, extracted_lockfile, foreign,
                   garbage, tmp, localVars, histVars>>

\* ---------------------------------------------------------------- the scan
Remove(n) == tmp \ {n}

\* A scan that ends at the first candidate it leaves.
NextOfScanBreak(left) == "create"

\* The for loop over the listing goes on with the next entry or is over.
NextOfScan(left) == IF left = {} THEN "create" ELSE "scan"

\* A scan that deletes the dll whatever the delete of the lock file gave.
AfterLockUnlinkAlways(r) == "unlink_dll"

\* What the scan does after os.unlink(lockfilename) gave r (lines 193-209):
\* go on to delete the dll, or leave this candidate.
AfterLockUnlink(r) ==
    IF r \in {"ok", "ERROR_FILE_NOT_FOUND"} THEN "unlink_dll" ELSE "continue"

\* A scan that takes a lock file that is already gone for an unexpected error.
LockUnlinkReportNotFound(r) ==
    IF r \in {"ok", "ERROR_SHARING_VIOLATION"} THEN "none" ELSE "unhandled"

\* What the scan reports after os.unlink(lockfilename) gave r (lines 195-206):
\* unhandled_exc_handler() for every error but not-found and sharing violation.
LockUnlinkReport(r) ==
    IF r \in {"ok", "ERROR_FILE_NOT_FOUND", "ERROR_SHARING_VIOLATION"}
    THEN "none" ELSE "unhandled"

\* The basenames of a listing the loop body acts on: "m = dll_regex.search(basename); if m".
MatchingAll(listing) == listing
Matching(listing) == {n \in listing : dll_regex(n)}

\* os.listdir(temp_dir), then the entries that match dll_regex.  A failing
\* listing is caught by the except around the loop (lines 224-225).
ListDir(t) ==
    /\ pc[t] = "listdir"
    /\ \E r \in {"ok", "error"} :
         LET listing == IF r = "ok" THEN Matching(tmp) ELSE {} IN
         /\ cands' = [cands EXCEPT ![t] = listing]
         /\ Goto(t, NextOfScan(listing))
         /\ Report(t, IF r = "ok" THEN "none" ELSE "unhandled")
    /\ Quiet
    /\ UNCHANGED <<procVars, tmp, cur, curres, lockfile, dllfilename, dllfile, copied, ret,
                   histVars>>

\* The next candidate of the loop: delete its lock file first (lines 189-209).
UnlinkLock(t) ==
    /\ pc[t] = "scan"
    /\ \E b \in cands[t] :
         LET lockfilename == dll_to_lck(b) IN
         \E r \in UnlinkResults(lockfilename) :
            /\ tmp' = IF r = "ok" THEN Remove(lockfilename) ELSE tmp
            /\ cands' = [cands EXCEPT ![t] = @ \ {b}]
            /\ Goto(t, IF AfterLockUnlink(r) = "unlink_dll" THEN "unlink_dll"
                        ELSE NextOfScan(cands[t] \ {b}))
            /\ cur' = [cur EXCEPT ![t] = IF AfterLockUnlink(r) = "unlink_dll" THEN b ELSE NoName]
            /\ curres' = [curres EXCEPT ![t] = IF AfterLockUnlink(r) = "unlink_dll" THEN r ELSE ""]
            /\ skipped' = [skipped EXCEPT ![t] =
                   IF r = "ERROR_SHARING_VIOLATION" THEN @ \cup {b} ELSE @]
            /\ Report(t, LockUnlinkReport(r))
    /\ Quiet
    /\ UNCHANGED <<procVars, lockfile, dllfilename, dllfile, copied, ret, made, tries, probeSaw>>

\* OK, now delete the dll (lines 211-223).
UnlinkDll(t) ==
    /\ pc[t] = "unlink_dll"
    /\ \E r \in UnlinkResults(cur[t]) :
         /\ tmp' = IF r = "ok" THEN Remove(cur[t]) ELSE tmp
         /\ Report(t, IF r \in {"ok", "ERROR_FILE_NOT_FOUND"} THEN "none" ELSE "unhandled")
    /\ cur' = [cur EXCEPT ![t] = NoName]
    /\ curres' = [curres EXCEPT ![t] = ""]
    /\ Goto(t, NextOfScan(cands[t]))
    /\ Quiet
    /\ UNCHANGED <<procVars, cands, lockfile, dllfilename, dllfile, copied, ret, histVars>>

\* ---------------------------------------------------------------- the pair
\* The names a create of n adds to those this extraction made.
Made(t, n) == IF n \notin tmp THEN made[t] \cup {n} ELSE made[t]

\* for retry in range(10): tempfile.NamedTemporaryFile(prefix, suffix, delete=False)
\* draws tokens until an exclusive create succeeds and gives up with IOError when
\* it finds no usable name; then lck_to_dll(lockfilename).  Nothing in the body
\* continues the loop, so the else branch (line 246) needs tries = RetryLimit.
CreateLock(t) ==
    /\ pc[t] = "create"
    /\ IF tries[t] >= RetryLimit
         THEN Raise(t, Raised("AssertionError", "Too many retries"))
         ELSE IF \E k \in Tokens : ExclusiveCreateOk(LckName(k))
         THEN \E k \in Tokens :
                /\ ExclusiveCreateOk(LckName(k))
                /\ tmp' = tmp \cup {LckName(k)}
                /\ made' = [made EXCEPT ![t] = Made(t, LckName(k))]
                /\ tries' = [tries EXCEPT ![t] = @ + 1]
                /\ lockfile' = [lockfile EXCEPT ![t] = LckName(k)]
                /\ dllfilename' = [dllfilename EXCEPT ![t] = lck_to_dll(LckName(k))]
                /\ Goto(t, "create_dll")
                /\ Quiet
                /\ Report(t, "none")
                /\ UNCHANGED <<lock, ret, cands, cur, curres, dllfile, copied, skipped, probeSaw,
                               garbage>>
         ELSE /\ Throw(t, Raised("IOError", "No usable temporary file name found"),
                       "", "", made[t], tries[t] + 1)
              /\ DropLocals(t, Held(t))
              /\ UNCHANGED tmp
    /\ UNCHANGED <<platform, ident, enforced, bundled, extracted_filename, extracted_lockfile, nExtract,
                   foreign>>

\* wf.CreateFileW(dllfilename, GENERIC_WRITE, 0, None, CREATE_NEW, ...): a
\* pywintypes.error is not caught and leaves the extraction (line 240).
CreateDll(t) ==
    LET n == dllfilename[t] IN
    /\ pc[t] = "create_dll"
    /\ \/ /\ ExclusiveCreateOk(n)
          /\ tmp' = tmp \cup {n}
          /\ made' = [made EXCEPT ![t] = Made(t, n)]
          /\ dllfile' = [dllfile EXCEPT ![t] = TRUE]
          /\ Goto(t, "sanity")
          /\ Quiet
          /\ Report(t, "none")
          /\ UNCHANGED <<lock, ret, cands, cur, curres, lockfile, dllfilename, copied, tries,
                         skipped, probeSaw, garbage>>
       \/ /\ \E code \in (IF ExclusiveCreateOk(n) THEN {} ELSE {"ERROR_FILE_EXISTS"})
                           \cup {"ERROR_ACCESS_DENIED"} :
                Raise(t, Raised("pywintypes.error from CreateFileW", code))
          /\ UNCHANGED tmp
    /\ UNCHANGED <<platform, ident, enforced, bundled, extracted_filename, extracted_lockfile, nExtract,
                   foreign>>

\* A sanity check that reports nothing.
SanityReportNothing(r, exists) == "none"

\* What the sanity check reports when os.unlink(lockfilename) gave r and
\* os.path.exists(lockfilename) then gives exists (lines 250-261):
\* unhandled_exc_handler() for an error other than sharing violation,
\* report_bad_assumption() when the delete worked or the file is gone.
SanityReport(r, exists) ==
    IF r = "ok" THEN "bad_assumption"
    ELSE IF r = "ERROR_SHARING_VIOLATION"
    THEN (IF exists THEN "none" ELSE "bad_assumption")
    ELSE (IF exists THEN "unhandled" ELSE "unhandled, bad_assumption")

\* Make sure the lockfile can't be deleted (lines 248-261): os.unlink of the
\* lock file this thread holds open, then os.path.exists.
Sanity(t) ==
    LET n == lockfile[t] IN
    /\ pc[t] = "sanity"
    /\ \E r \in UnlinkResults(n) :
         /\ tmp' = IF r = "ok" THEN Remove(n) ELSE tmp
         /\ curres' = [curres EXCEPT ![t] = r]
         /\ Report(t, SanityReport(r, r # "ok" /\ n \in tmp))
    /\ Goto(t, "copy")
    /\ Quiet
    /\ UNCHANGED <<procVars, cands, cur, lockfile, dllfilename, dllfile, copied, ret,
                   histVars>>

\* An extraction that probes the dll without closing it.
AfterCopyProbe == "probe"

\* Where the extraction goes once the payload is written: to dllfile.close()
\* (line 274), which comes before the probe.
AfterCopy == "close"

\* shutil.copyfileobj(infile, dllfile) (lines 270-271): all the payload, or an
\* IOError part of the way.
Copy(t) ==
    /\ pc[t] = "copy"
    /\ \/ /\ copied' = [copied EXCEPT ![t] = TRUE]
          /\ Goto(t, AfterCopy)
          /\ Quiet
          /\ Report(t, "none")
          /\ UNCHANGED <<lock, ret, cands, cur, curres, lockfile, dllfilename, dllfile, histVars,
                         garbage>>
       \/ Raise(t, Raised("IOError", "copyfileobj"))
    /\ UNCHANGED <<platform, ident, enforced, bundled, extracted_filename, extracted_lockfile, nExtract,
                   foreign, tmp>>

\* dllfile.close()
Close(t) ==
    /\ pc[t] = "close"
    /\ dllfile' = [dllfile EXCEPT ![t] = FALSE]
    /\ Goto(t, "probe")
    /\ Quiet
    /\ Report(t, "none")
    /\ UNCHANGED <<procVars, tmp, cands, cur, curres, lockfile, dllfilename, copied, ret,
                   histVars>>

\* The exception that leaves the except clause of lines 280-296, given the
\* winerror of LoadLibrary and the answer of can_read_and_execute.
ProbeError(n, load, check) ==
    IF load = "ERROR_ACCESS_DENIED"
    THEN IF check = "False" THEN BrokenTempDirError(dirname(TempPath(n)))
         ELSE IF check = "True" THEN Raised("pywintypes.error from LoadLibrary", load)
         ELSE Raised("pywintypes.error from CreateFileW", check)
    ELSE Raised("pywintypes.error from LoadLibrary", load)

\* win32api.LoadLibrary(dllfilename), and FreeLibrary when it worked (lines 276-300).
Probe(t) ==
    LET n == dllfilename[t] IN
    /\ pc[t] = "probe"
    /\ \E load \in LoadResults(n, copied[t]) :
         IF load = "ok"
         THEN /\ Goto(t, "commit")
              /\ probeSaw' = [probeSaw EXCEPT ![t] =
                     [loaded |-> TRUE, written |-> copied[t], open |-> DllOpen(n)]]
              /\ Quiet
              /\ Report(t, "none")
              /\ UNCHANGED <<lock, ret, localVars, made, tries, skipped, garbage>>
         ELSE \E check \in (IF load = "ERROR_ACCESS_DENIED"
                            THEN can_read_and_execute(n) ELSE {"not called"}) :
                RaiseFromProbe(t, ProbeError(n, load, check), load, check)
    /\ UNCHANGED <<platform, ident, enforced, bundled, extracted_filename, extracted_lockfile, nExtract,
                   foreign, tmp>>

\* An extraction that lets go of its lock file when it ends.
KeptLockfileNone(t) == NoName

\* self._extracted_lockfile = lockfile (line 303): the open lock file is kept.
KeptLockfile(t) == lockfile[t]

\* Lines 302-306, then "return self._extracted_filename" (line 104): the lock
\* file stays open in self._extracted_lockfile.
Commit(t) ==
    LET p == procOf(t) IN
    /\ pc[t] = "commit"
    /\ extracted_lockfile' = [extracted_lockfile EXCEPT ![p] = KeptLockfile(t)]
    /\ extracted_filename' = [extracted_filename EXCEPT ![p] = TempPath(dllfilename[t])]
    /\ Leave(t, Returned(TempPath(dllfilename[t])))
    /\ DropLocals(t, garbage[t])
    /\ Quiet
    /\ Report(t, "none")
    /\ UNCHANGED <<platform, ident, enforced, bundled, nExtract, foreign, tmp>>

\* A process whose threads are all outside dll_filename ends, and a new process
\* takes its place: its handles are closed, its files stay in the directory.
Exit(p) ==
    /\ \A t \in threadsOf(p) : pc[t] = "idle"
    /\ lock' = [lock EXCEPT ![p] = 0]
    /\ extracted_filename' = [extracted_filename EXCEPT ![p] = NoPath]
    /\ extracted_lockfile' = [extracted_lockfile EXCEPT ![p] = NoName]
    /\ nExtract' = [nExtract EXCEPT ![p] = 0]
    /\ ret' = [t \in Threads |-> IF procOf(t) = p THEN NoRet ELSE ret[t]]
    /\ garbage' = [t \in Threads |-> IF procOf(t) = p THEN {} ELSE garbage[t]]
    /\ Quiet
    /\ sink' = NoReport
    /\ UNCHANGED <<platform, ident, enforced, bundled, foreign, tmp, pc, localVars, histVars>>

\* A process outside the model ends: the lock file it held is no longer in use.
ForeignExit ==
    /\ \E n \in foreign : foreign' = foreign \ {n}
    /\ Quiet
    /\ sink' = NoReport
    /\ UNCHANGED <<platform, ident, enforced, bundled, lock, extracted_filename, extracted_lockfile, nExtract,
                   garbage, tmp, pc, localVars, ret, histVars>>

\* The traceback of a thread's last failed call is released: the frame of
\* _win32_extract is freed and the files its locals held open are closed.
Collect(t) ==
    /\ garbage[t] # {}
    /\ garbage' = [garbage EXCEPT ![t] = {}]
    /\ Quiet
    /\ sink' = NoReport
    /\ UNCHANGED <<platform, ident, enforced, bundled, lock, extracted_filename, extracted_lockfile, nExtract,
                   foreign, tmp, pc, localVars, ret, histVars>>

Step(t) ==
    \/ Call(t)
    \/ Acquire(t)
    \/ Locked(t)
    \/ ListDir(t)
    \/ UnlinkLock(t)
    \/ UnlinkDll(t)
    \/ CreateLock(t)
    \/ CreateDll(t)
    \/ Sanity(t)
    \/ Copy(t)
    \/ Close(t)
    \/ Probe(t)
    \/ Commit(t)

Next ==
    \/ \E t \in threadsOf(1) : Step(t)
    \/ \E t \in threadsOf(1) : Collect(t)
    \/ Exit(1)
    \/ ForeignExit

Spec == Init /\ [][Next]_vars

NextPeers ==
    \/ \E t \in {1, NumThreads + 1} : Step(t)
    \/ \E t \in {1, NumThreads + 1} : Collect(t)
    \/ \E p \in Procs : Exit(p)

SpecPeers == InitPeers /\ [][NextPeers]_vars

\* Two classes with their package_name and dll_name, before the prefix of
\* either is computed.
InitIdentity ==
    /\ \E a, b \in Strings \X Strings : ident = [NoIdent EXCEPT !.a = a, !.b = b]
    /\ platform = "win32"
    /\ enforced = TRUE
    /\ bundled = [p \in Procs |-> TRUE]
    /\ tmp = {}
    /\ foreign = {}
    /\ Fresh

\* "Compute the dll prefix" (lines 142-145), for both classes.
ComputePrefix ==
    /\ ~ident.derived
    /\ ident.a # <<>>
    /\ ident' = [ident EXCEPT
          !.derived = TRUE,
          !.uuid_a = dll_uuid(ident.a[1], ident.a[2]),
          !.uuid_b = dll_uuid(ident.b[1], ident.b[2]),
          !.prefix_a = tmp_prefix(ident.a[2], dll_uuid(ident.a[1], ident.a[2])),
          !.prefix_b = tmp_prefix(ident.b[2], dll_uuid(ident.b[1], ident.b[2]))]
    /\ UNCHANGED <<platform, enforced, bundled, lock, extracted_filename, extracted_lockfile,
                   tmp, foreign, pc, localVars, ret, raised, sink, nExtract, histVars, garbage>>

NextIdentity == ComputePrefix

SpecIdentity == InitIdentity /\ [][NextIdentity]_vars

\* One bundled process on Windows that starts on an empty directory, its
\* threads calling dll_filename again and again, and the processes that take
\* its place when it ends.
InitLive ==
    /\ ident = NoIdent
    /\ platform = "win32"
    /\ enforced = TRUE
    /\ bundled = [p \in Procs |-> TRUE]
    /\ tmp = {}
    /\ foreign = {}
    /\ Fresh

NextLive ==
    \/ \E t \in threadsOf(1) : Step(t)
    \/ \E t \in threadsOf(1) : Collect(t)
    \/ Exit(1)

\* Fair scheduling: a thread that can take a step does, and a thread that
\* waits for self._lock gets it when it is free again and again.
Scheduling ==
    \A t \in threadsOf(1) :
       /\ WF_vars(Step(t))
       /\ SF_vars(Acquire(t))

\* The threads of one process that lives on, under fair scheduling.
NextFair == \E t \in threadsOf(1) : Step(t)

SpecFair == InitLive /\ [][NextFair]_vars /\ Scheduling

\* And a fair file system: a listing or a delete that can succeed again and
\* again does so.
Fairness ==
    /\ Scheduling
    /\ \A t \in threadsOf(1) :
          /\ WF_vars(Collect(t))
          /\ SF_vars(ListDir(t) /\ sink' = NoReport)
          /\ \A n \in Names : SF_vars(Step(t) /\ n \in tmp /\ tmp' = tmp \ {n})

SpecLive == InitLive /\ [][NextLive]_vars /\ Fairness

\* One bundled process on Windows whose temporary directory is on a file system
\* that does not enforce share modes: the case the sanity check looks for.
InitLax ==
    /\ ident = NoIdent
    /\ platform = "win32"
    /\ enforced = FALSE
    /\ bundled = [p \in Procs |-> TRUE]
    /\ tmp \in SUBSET Names
    /\ foreign \in SUBSET {n \in tmp : lck_regex(n)}
    /\ Fresh

NextLax ==
    \/ Step(1)
    \/ Collect(1)
    \/ Exit(1)
    \/ ForeignExit

SpecLax == InitLax /\ [][NextLax]_vars

\* One bundled process on Windows whose temporary directory also holds files
\* of other programs.
InitFrame ==
    /\ ident = NoIdent
    /\ platform = "win32"
    /\ enforced = TRUE
    /\ bundled = [p \in Procs |-> TRUE]
    /\ tmp \in SUBSET (Names \cup Unrelated)
    /\ foreign \in SUBSET {n \in tmp : lck_regex(n)}
    /\ Fresh

NextFrame ==
    \/ Step(1)
    \/ Collect(1)
    \/ Exit(1)
    \/ ForeignExit

SpecFrame == InitFrame /\ [][NextFrame]_vars

\* ---------------------------------------------------------------- claims
\* The places of a thread inside _win32_extract.
ExtractPcs ==
    {"listdir", "scan", "unlink_dll", "create", "create_dll", "sanity", "copy", "close",
     "probe", "commit"}

Extracting(p) == {t \in threadsOf(p) : pc[t] \in ExtractPcs}
NeedsExtraction(p) == bundled[p] /\ platform = "win32"

\* C1 as stated: where extraction is required, a process performs exactly one
\* extraction and every caller receives the identical path: never a second
\* extraction, never an error, never two different paths.
C1_ExactlyOneExtraction ==
    \A p \in Procs :
        NeedsExtraction(p) =>
            /\ nExtract[p] <= 1
            /\ \A t \in threadsOf(p) : ret[t].kind # "error"
            /\ \A t1, t2 \in threadsOf(p) :
                   ret[t1].kind = "path" /\ ret[t2].kind = "path" => ret[t1] = ret[t2]

\* C1, amended: at most one thread of a process is inside the extraction at any
\* time, no extraction runs once one has succeeded, and every caller that
\* receives a path receives the identical path, the cached one.
C1_OneAtATimeSamePath ==
    \A p \in Procs :
        /\ Cardinality(Extracting(p)) <= 1
        /\ extracted_filename[p] # NoPath => Extracting(p) = {}
        /\ \A t \in threadsOf(p) :
               NeedsExtraction(p) /\ ret[t].kind = "path" =>
                   ret[t].path = extracted_filename[p]

\* Two concurrent callers of one process both hold the path of the one extraction.
C1_Witness ==
    /\ ret[1].kind = "path" /\ ret[2].kind = "path"
    /\ ret[1].path.dir = "tmp"
    /\ ret[1] = ret[2]

\* C2: once a process has its extracted path, no step of its threads creates or
\* deletes a file, enters the scan, the write or the probe, or changes the
\* cached path and lock file, and a call that ends returns the cached path.
C2_CachedPathReused ==
    [][\A p \in Procs : \A t \in threadsOf(p) :
          (extracted_filename[p] # NoPath /\ Step(t)) =>
              /\ tmp' = tmp
              /\ extracted_filename'[p] = extracted_filename[p]
              /\ extracted_lockfile'[p] = extracted_lockfile[p]
              /\ pc'[t] \notin ExtractPcs
              /\ raised' = NotRaised
              /\ (pc[t] = "locked" => ret'[t] = Returned(extracted_filename[p]))]_vars

\* A second caller got the cached path: one extraction, two callers with the path,
\* and the first caller is calling again.
C2_Witness ==
    /\ nExtract[1] = 1
    /\ extracted_filename[1] # NoPath
    /\ ret[2] = Returned(extracted_filename[1])
    /\ pc[1] = "locked"

\* C3: LoadLibrary runs only on a dll whose payload is all written and whose
\* file is closed, and the path is cached for callers only by a thread whose
\* probe succeeded on that file.
C3_ProbeAfterWriteAndClose ==
    [][\A t \in Threads :
          /\ pc'[t] = "probe" => copied'[t] /\ ~dllfile'[t]
          /\ probeSaw'[t].loaded => probeSaw'[t].written /\ ~probeSaw'[t].open
          /\ extracted_filename'[procOf(t)] # extracted_filename[procOf(t)] /\ Step(t) =>
                 \/ extracted_filename'[procOf(t)] = NoPath
                 \/ /\ probeSaw[t].loaded
                    /\ extracted_filename'[procOf(t)] = TempPath(dllfilename[t])
                    /\ ret'[t] = Returned(TempPath(dllfilename[t]))]_vars

\* A probe that succeeded on a written, closed file, about to publish the path.
C3_Witness ==
    \E t \in Threads :
        /\ pc[t] = "commit"
        /\ probeSaw[t] = [loaded |-> TRUE, written |-> TRUE, open |-> FALSE]
        /\ dllfilename[t] \in tmp

\* The names a step removed from the directory.
Removed == tmp \ tmp'

\* C4 as stated: when the delete of a candidate's lock file succeeded, the scan
\* leaves that candidate with both files gone; when it failed with "in use",
\* both files are left.
C4_LockDeletedThenBothGone ==
    [][\A t \in Threads : Step(t) =>
          /\ (pc[t] = "unlink_dll" /\ curres[t] = "ok") =>
                 cur[t] \notin tmp' /\ dll_to_lck(cur[t]) \notin tmp'
          /\ \A b \in cands[t] \ cands'[t] :
                 (dll_to_lck(b) \in tmp /\ LockHeld(dll_to_lck(b))) => tmp' = tmp]_vars

\* C4, amended: for every candidate the listing gave, the scan tries the lock
\* file first and deletes a dll only after its lock file was deleted or not
\* found; when the lock delete succeeded (the lock file is removed) the dll
\* delete is tried next, and the dll is gone unless that delete fails with
\* another error than not-found, which is reported and leaves the dll; a lock
\* file in use leaves both files untouched and the dll delete untried.
C4_LockFirstThenDll ==
    [][\A t \in Threads : Step(t) =>
          /\ \A b \in Removed : dll_regex(b) =>
                 /\ pc[t] = "unlink_dll" /\ cur[t] = b
                 /\ curres[t] \in {"ok", "ERROR_FILE_NOT_FOUND"}
          /\ pc'[t] = "unlink_dll" =>
                 /\ pc[t] = "scan" /\ cur'[t] \in cands[t]
                 /\ dll_to_lck(cur'[t]) \notin tmp'
                 /\ curres'[t] = "ok" <=> Removed = {dll_to_lck(cur'[t])}
          /\ pc'[t] = "create" /\ pc[t] \in {"scan", "unlink_dll"} => cands'[t] = {}
          /\ (pc[t] = "unlink_dll" /\ curres[t] = "ok") =>
                 \/ cur[t] \notin tmp'
                 \/ sink' = <<t, "unhandled">> /\ tmp' = tmp
          /\ \A b \in cands[t] \ cands'[t] :
                 (dll_to_lck(b) \in tmp /\ LockHeld(dll_to_lck(b))) =>
                     tmp' = tmp /\ pc'[t] # "unlink_dll"]_vars

\* One scan met both cases: a lock file in use, and a lock file it deleted whose
\* dll it deletes next.
C4_Witness ==
    \E t \in Threads :
        /\ pc[t] = "unlink_dll" /\ curres[t] = "ok"
        /\ cur[t] \in tmp /\ dll_to_lck(cur[t]) \notin tmp
        /\ skipped[t] # {}

\* C5: an extraction that reaches its end made exactly one lock file and one dll,
\* in one pass of the creation loop, under names that were not in the directory
\* when it created them; and no step of it removes a file of a pair whose lock
\* file it found in use.
C5_OneNewDistinctPair ==
    [][\A t \in Threads : Step(t) =>
          /\ pc'[t] = "commit" =>
                 /\ made'[t] = {lockfile'[t], dllfilename'[t]}
                 /\ lck_regex(lockfile'[t]) /\ dllfilename'[t] = lck_to_dll(lockfile'[t])
                 /\ tries'[t] = 1
                 /\ made'[t] \subseteq tmp'
          /\ made'[t] \ made[t] \subseteq tmp' \ tmp
          /\ \A b \in skipped[t] :
                 /\ b \in tmp => b \in tmp'
                 /\ dll_to_lck(b) \in tmp => dll_to_lck(b) \in tmp']_vars

\* An extraction found a pair in use, left it, and made a second pair.
C5_Witness ==
    \E t \in Threads : \E b \in skipped[t] :
        /\ pc[t] = "commit"
        /\ {b, dll_to_lck(b)} \subseteq tmp
        /\ dll_to_lck(b) \in foreign
        /\ dllfilename[t] # b
        /\ {lockfile[t], dllfilename[t]} \subseteq tmp

\* C6: no step of the scan raises to the caller or ends the extraction: a failed
\* listing and a failed delete are reported and the scan goes on with the
\* candidates that are left, then to the creation of the pair; an exception
\* that leaves an extraction comes from the write or the probe.
C6_ScanNeverFails ==
    [][\A t \in Threads : Step(t) =>
          /\ pc[t] \in {"listdir", "scan", "unlink_dll"} =>
                 /\ raised' = NotRaised
                 /\ ret'[t] = ret[t]
                 /\ pc'[t] \in {"scan", "unlink_dll", "create"}
                 /\ pc'[t] = "create" <=> (cands'[t] = {} /\ cur'[t] = NoName)
                 /\ pc[t] # "listdir" => Cardinality(cands[t] \ cands'[t]) <= 1
          /\ (raised'.thread = t /\ pc[t] \in ExtractPcs) =>
                 pc[t] \in {"create", "create_dll", "copy", "probe"}]_vars

\* A delete failed on one candidate and the scan goes on with another.
C6_Witness ==
    \E t \in Threads :
        /\ pc[t] = "scan"
        /\ sink = <<t, "unhandled">>
        /\ cands[t] # {}

\* C7 as stated: when the probe load fails, the caller gets BrokenTempDirError
\* with the directory of the dll if the load error is access-denied and
\* can_read_and_execute answers False, and in every other case the error that
\* LoadLibrary raised, unchanged.
C7_ProbeErrorIsOriginal ==
    raised.load # "" =>
        IF raised.load = "ERROR_ACCESS_DENIED" /\ raised.check = "False"
        THEN raised.exc = "BrokenTempDirError" /\ raised.dir = "tmp"
        ELSE raised.exc = "pywintypes.error from LoadLibrary" /\ raised.code = raised.load

\* C8: where no extraction is required, nothing is extracted: no thread enters
\* _win32_extract, the directory and the cached state stay as they are; a
\* direct path is returned as it is, without the lock; a bundled resource on a
\* platform other than Windows ends in the NotImplementedError of the locator,
\* with the lock released.
C8_DirectOrUnsupported ==
    [][\A p \in Procs : ~NeedsExtraction(p) =>
          /\ \A t \in threadsOf(p) : pc'[t] \notin ExtractPcs
          /\ extracted_filename'[p] = NoPath /\ extracted_lockfile'[p] = NoName
          /\ (\A q \in Procs : ~NeedsExtraction(q)) => tmp' = tmp
          /\ ~bundled[p] =>
                /\ lock'[p] = 0
                /\ \A t \in threadsOf(p) :
                      /\ pc'[t] = "idle"
                      /\ ret'[t] \in {NoRet, Returned(ResourcePath(platform))}
                      /\ raised'.thread # t
          /\ bundled[p] =>
                \A t \in threadsOf(p) :
                   /\ ret'[t] \in {NoRet, Failed}
                   /\ (pc[t] = "locked" /\ pc'[t] # "locked") =>
                         /\ pc'[t] = "idle" /\ ret'[t] = Failed
                         /\ raised'.thread = t /\ raised'.exc = "NotImplementedError"
                         /\ lock'[p] = 0]_vars

C8_Witness ==
    /\ platform # "win32" /\ bundled[1]
    /\ raised.thread = 1 /\ raised.exc = "NotImplementedError"
    /\ ret[1] = Failed /\ lock[1] = 0 /\ pc[1] = "idle"

\* An extraction failed because a name it drew for its pair was taken.
CollisionFailure ==
    /\ raised.load = ""
    /\ raised.code \in {"ERROR_FILE_EXISTS", "Too many retries"}

\* C9 as stated: an extraction that fails on colliding names raises the
\* "Too many retries" error and leaves none of the files it made in the
\* temp directory.
C9_RetryExhaustedLeavesNothing ==
    CollisionFailure =>
        /\ raised.exc = "AssertionError" /\ raised.code = "Too many retries"
        /\ raised.made \cap tmp = {}

\* C10 as stated: a collision makes the writer try again with a new token, so
\* an extraction fails on collisions only after all of its 10 attempts.
C10_FailsOnlyAfterAllAttempts ==
    CollisionFailure => raised.tries >= RetryLimit

\* The lock files a process holds open: in the locals of a running extraction,
\* in self._extracted_lockfile, and in the frames of failed extractions.
OpenLocks(p) ==
    {n \in Names : lck_regex(n) /\
        \/ extracted_lockfile[p] = n
        \/ \E t \in threadsOf(p) : lockfile[t] = n \/ n \in garbage[t]}

\* C11 as stated: in every state a process holds at most one lock file open.
C11_AtMostOneLockOpen ==
    \A p \in Procs : Cardinality(OpenLocks(p)) <= 1

\* The names a step added to the directory.
Added == tmp' \ tmp

\* C12: a dll is created, and written, only by an extraction that holds its
\* lock file open, the lock file being in the directory already; a process
\* with an extracted path holds the lock file of that path open, and keeps
\* it until the process ends; and no step deletes a lock file that is held open.
C12_LockFirstAndKept ==
    [][/\ \A n \in Added : dll_regex(n) =>
             \E t \in Threads :
                /\ pc[t] = "create_dll" /\ dllfilename[t] = n
                /\ lockfile[t] = dll_to_lck(n) /\ lockfile[t] \in tmp
       /\ \A t \in Threads : copied'[t] =>
             lockfile'[t] = dll_to_lck(dllfilename'[t]) /\ lockfile'[t] \in tmp'
       /\ \A p \in Procs :
             /\ extracted_filename'[p] # NoPath =>
                   /\ extracted_lockfile'[p] = dll_to_lck(extracted_filename'[p].base)
                   /\ extracted_lockfile'[p] \in tmp'
             /\ (extracted_lockfile[p] # NoName /\ ~Exit(p)) =>
                   extracted_lockfile'[p] = extracted_lockfile[p]
       /\ \A n \in Removed : ~(lck_regex(n) /\ LockHeld(n))]_vars

\* A process has its extracted path, and a later call of another thread is
\* under way while the lock file is still open and in the directory.
C12_Witness ==
    /\ extracted_lockfile[1] # NoName /\ extracted_lockfile[1] \in tmp
    /\ extracted_filename[1] = TempPath(lck_to_dll(extracted_lockfile[1]))
    /\ ret[1] = Returned(extracted_filename[1])
    /\ pc[2] = "locked"

\* C13 as stated: the same (package, name) pair always gives the same
\* identifier, and two distinct pairs never give the same name to hash, and so
\* never the same identifier.
C13_DistinctPairsDistinctIdentity ==
    ident.derived =>
        /\ ident.a = ident.b => ident.uuid_a = ident.uuid_b
        /\ ident.a # ident.b =>
              /\ uuid_name(ident.a[1], ident.a[2]) # uuid_name(ident.b[1], ident.b[2])
              /\ ident.uuid_a # ident.uuid_b

\* C13, amended: the identifier and the prefix are functions of the pair alone,
\* the same pair gives the same identifier and the same prefix, and two
\* distinct pairs never give the same prefix, whether or not the names they
\* hash are equal.
C13_SamePairSamePrefix ==
    ident.derived =>
        /\ ident.uuid_a = dll_uuid(ident.a[1], ident.a[2])
        /\ ident.uuid_b = dll_uuid(ident.b[1], ident.b[2])
        /\ ident.a = ident.b => ident.uuid_a = ident.uuid_b /\ ident.prefix_a = ident.prefix_b
        /\ ident.a # ident.b => ident.prefix_a # ident.prefix_b

\* Two distinct pairs that hash the same name and still have distinct prefixes.
C13_Witness ==
    /\ ident.derived
    /\ ident.a # ident.b
    /\ ident.uuid_a = ident.uuid_b
    /\ ident.prefix_a # ident.prefix_b

\* The lock file that guards the name n: n itself, or the lock file of the dll n.
LockOf(n) == IF lck_regex(n) THEN n ELSE dll_to_lck(n)

\* No process holds the file n or its lock file open.
Abandoned(n) == n \in tmp /\ ~LockHeld(LockOf(n)) /\ ~DllOpen(n)

\* C14 as stated: while extractions keep starting, each with its scan, every
\* lock file and dll that no live process holds any more is deleted at last.
C14_NoFileStaysForever ==
    ([]<>(\E t \in Threads : pc[t] = "listdir")) =>
        \A n \in Names : Abandoned(n) ~> (n \notin tmp)

\* C15: in the scan, a lock file or a dll that is not found is no error: nothing
\* is reported, and after a lock file not found the dll is deleted next.  A
\* delete that fails otherwise, "in use" on the lock file apart, is reported
\* as unexpected, deletes nothing, leaves the dll of a failed lock delete
\* untried, and the scan goes on with the candidates that are left.
C15_ScanDeleteFailures ==
    [][\A t \in Threads : Step(t) =>
          /\ pc[t] = "scan" =>
                \E b \in cands[t] :
                   /\ cands'[t] = cands[t] \ {b}
                   /\ dll_to_lck(b) \notin tmp =>
                         /\ sink' = NoReport /\ tmp' = tmp
                         /\ pc'[t] = "unlink_dll" /\ cur'[t] = b
                   /\ (dll_to_lck(b) \in tmp /\ tmp' = tmp /\ b \notin skipped'[t]) =>
                         sink' = <<t, "unhandled">>
                   /\ sink' = <<t, "unhandled">> =>
                         /\ tmp' = tmp
                         /\ pc'[t] = NextOfScan(cands'[t])
                   /\ b \in skipped'[t] \ skipped[t] => sink' = NoReport
          /\ pc[t] = "unlink_dll" =>
                /\ cur[t] \notin tmp => sink' = NoReport /\ tmp' = tmp
                /\ (cur[t] \in tmp /\ tmp' = tmp) => sink' = <<t, "unhandled">>
                /\ sink' = <<t, "unhandled">> => tmp' = tmp
                /\ cands'[t] = cands[t]
                /\ pc'[t] = NextOfScan(cands[t])]_vars

\* The delete of a lock file has just failed unexpectedly; the scan left that
\* candidate with its dll in place and goes on with the next one.
C15_Witness ==
    \E t \in Threads :
        /\ sink = <<t, "unhandled">>
        /\ pc[t] = "scan" /\ cands[t] # {}
        /\ skipped[t] = {}
        /\ \E k \in Tokens : DllName(k) \notin cands[t] /\ {DllName(k), LckName(k)} \subseteq tmp

\* C16: the sanity check never ends the extraction and repairs nothing: the
\* extraction goes on to the copy with the same pair, whatever the delete of
\* its own lock file gave.  A delete that worked is reported as a violated
\* assumption, a sharing violation is not reported, any other error is
\* reported as unexpected.
C16_SanityNeverFatal ==
    [][\A t \in Threads : (Step(t) /\ pc[t] = "sanity") =>
          /\ pc'[t] = "copy" /\ raised' = NotRaised
          /\ lockfile'[t] = lockfile[t] /\ dllfilename'[t] = dllfilename[t]
          /\ made'[t] = made[t] /\ Added = {}
          /\ Removed \subseteq {lockfile[t]}
          /\ curres'[t] = "ok" <=> Removed = {lockfile[t]}
          /\ curres'[t] = "ok" => sink' = <<t, "bad_assumption">>
          /\ curres'[t] = "ERROR_SHARING_VIOLATION" => sink' = NoReport
          /\ curres'[t] \notin {"ok", "ERROR_SHARING_VIOLATION"} =>
                sink' = <<t, "unhandled">>]_vars

\* The sanity check deleted the lock file of the extraction, and the extraction
\* went on through the probe and returned its path.
C16_Witness ==
    /\ ret[1].kind = "path" /\ ret[1].path = extracted_filename[1]
    /\ extracted_filename[1].base \in tmp
    /\ extracted_lockfile[1] = dll_to_lck(extracted_filename[1].base)
    /\ extracted_lockfile[1] \notin tmp

\* A process other than p holds the lock file of the dll n open and has made
\* the dll n itself: in a running extraction, or as its extracted path.
LiveDllOfOther(n, p) ==
    \E q \in Procs \ {p} :
       \/ extracted_filename[q] = TempPath(n) /\ extracted_lockfile[q] = dll_to_lck(n)
       \/ \E u \in threadsOf(q) : n \in made[u] /\ lockfile[u] = dll_to_lck(n)

\* C17 as stated: no step of a scan deletes the dll of another live process,
\* a dll whose lock file that process holds open.
C17_ScanSparesLiveDll ==
    [][\A t \in Threads : Step(t) =>
          \A n \in Removed :
             dll_regex(n) =>
                ~(dll_to_lck(n) \in tmp /\ LiveDllOfOther(n, procOf(t)))]_vars

\* C18: an exception that leaves the extraction leaves the cached path and the
\* cached lock file unset and the lock free; a call that finds no cached path
\* where extraction is required starts a new extraction at its scan; and a
\* call ends with a path only when that path is the cached one.
C18_FailureNotCached ==
    [][\A t \in Threads :
          LET p == procOf(t) IN
          /\ (raised'.thread = t /\ pc[t] \in ExtractPcs) =>
                /\ extracted_filename'[p] = NoPath /\ extracted_lockfile'[p] = NoName
                /\ lock'[p] = 0 /\ pc'[t] = "idle" /\ ret'[t] = Failed
          /\ (Step(t) /\ pc[t] = "locked" /\ NeedsExtraction(p)
                /\ extracted_filename[p] = NoPath) =>
                /\ pc'[t] = "listdir" /\ lock'[p] = t
                /\ made'[t] = {} /\ copied'[t] = FALSE /\ probeSaw'[t] = NotProbed
          /\ (Step(t) /\ NeedsExtraction(p) /\ pc[t] # "idle" /\ pc'[t] = "idle"
                /\ ret'[t].kind = "path") =>
                /\ ret'[t].path = extracted_filename'[p]
                /\ extracted_filename'[p] # NoPath]_vars

\* An extraction of the process failed, and a later one succeeded: the second
\* caller has the path.
C18_Witness ==
    /\ nExtract[1] = 2
    /\ ret[1] = Failed
    /\ extracted_filename[1] # NoPath
    /\ ret[2] = Returned(extracted_filename[1])
    /\ extracted_filename[1].base \in tmp

\* C19: a thread outside dll_filename never holds self._lock, the holder of
\* the lock is always a thread under "with self._lock", a thread takes the lock
\* only when it is free, and under fair scheduling every caller of
\* dll_filename comes back, with a path or with an exception.
C19_EveryCallerReturns ==
    /\ [](\A t \in Threads :
             /\ pc[t] \in {"idle", "acquire"} => lock[procOf(t)] # t
             /\ pc[t] \notin {"idle", "acquire"} => lock[procOf(t)] = t)
    /\ [][\A t \in Threads : lock'[procOf(t)] = t /\ lock[procOf(t)] # t =>
             lock[procOf(t)] = 0 /\ pc[t] = "acquire"]_vars
    /\ \A t \in threadsOf(1) :
          (pc[t] = "acquire") ~> (pc[t] = "idle" /\ ret[t].kind \in {"path", "error"})

\* Both threads are in dll_filename: one is in the extraction with the lock,
\* the other waits for the lock.
C19_Witness ==
    /\ pc[1] = "acquire"
    /\ lock[1] = 2
    /\ pc[2] = "probe"


============================================================================
